---- MODULE Spec2Model ----
(***************************************************************************)
(* Risk-gated strategy execution and position monitoring of                *)
(* AlgoTrader-India: StrategyService (checkRiskLimits, executeStrategy,    *)
(* monitorPositions, calculatePnL) and GrowService (initialize,            *)
(* getMarketData, placeOrder, exitPosition) over the remote store tables   *)
(* user_settings, trading_strategies, positions, trades, market_data and   *)
(* system_logs.  Every await of the source is one step of the calling      *)
(* process; the synchronous code between two awaits belongs to the step    *)
(* that resumes it.                                                        *)
(***************************************************************************)
EXTENDS Integers, Sequences, FiniteSets, TLC

\* ------------------------------------------------------------------ bounds
MaxExec == 1            \* executeStrategy calls per behaviour
MaxTicks == 2           \* monitorPositions calls per behaviour
MaxLegs == 2            \* legs per executeStrategy call
MaxInitPositions == 1   \* position rows already in the store at start
MaxFaults == 1          \* collaborator failures per behaviour
MaxInit == 1            \* initialize calls per behaviour
MaxExits == 1           \* manual exits (LivePositions.handleExit) per behaviour
MaxCalls == 2           \* service calls (execute, tick, exit) per behaviour
MaxQty == 2             \* lots per position offered to calculatePnL
MaxRetries == 1         \* re-invocations of a settled executeStrategy call

\* ---------------------------------------------------------------- universe
Users == {"u1", "u2"}
SessionUser == "u1"
StrategyIds == {"s1"}
NULL == "null"

\* symbols are character sequences, so that String.includes is computed
NIFTY == <<"N", "I", "F", "T", "Y">>
BANK == <<"B", "A", "N", "K">>
BANKNIFTY == BANK \o NIFTY
FINNIFTY == <<"F", "I", "N">> \o NIFTY
\* getIndexData: index === 'NIFTY' ? 'NIFTY 50' : 'NIFTY BANK'
NIFTY50 == NIFTY \o <<" ", "5", "0">>
NIFTYBANK == NIFTY \o <<" ">> \o BANK
SENSEX == <<"S", "E", "N", "S", "E", "X">>

Prices == {100, 120}
Today == 1
Days == {Today - 1, Today}

OrderStatuses == {"PENDING", "EXECUTED", "REJECTED"}

RiskLimitsMsg == "Risk limits exceeded. Cannot execute strategy."
NotAuthenticatedMsg == "Not authenticated with broker"
PositionNotFoundMsg == "Position not found"
StoreErrorMsg == "store error"
BrokerErrorMsg == "broker error"

\* StrategyLeg values offered to executeStrategy
Leg(sym, it, act, q) ==
    [symbol |-> sym, instrumentType |-> it, strikePrice |-> 24500,
     expiryDate |-> Today, action |-> act, quantity |-> q]
LegChoices ==
    {Leg(NIFTY, "CE", "BUY", 2), Leg(BANKNIFTY, "PE", "SELL", 1)}

RECURSIVE SeqsUpTo(_, _)
SeqsUpTo(S, n) ==
    IF n = 0 THEN {<<>>}
    ELSE LET shorter == SeqsUpTo(S, n - 1)
         IN shorter \cup {Append(s, x) : s \in {t \in shorter : Len(t) = n - 1}, x \in S}

Abs(x) == IF x < 0 THEN -x ELSE x

\* String.prototype.includes on character sequences
Includes(s, sub) ==
    \E k \in 0..(Len(s) - Len(sub)) :
        \A j \in 1..Len(sub) : s[k + j] = sub[j]

\* todayTrades.reduce((sum, pos) => sum + (pos.pnl || 0), 0)
RECURSIVE SumPnl(_)
SumPnl(rows) ==
    IF rows = <<>> THEN 0 ELSE Head(rows).pnl + SumPnl(Tail(rows))

\* ------------------------------------------------------------------- state
VARIABLES
    user_settings,      \* table user_settings: set of rows, one per user at most
    trading_strategies, \* table trading_strategies: set of rows
    positions,          \* table positions: sequence of rows, id = index
    trades,             \* table trades: sequence of rows, id = index
    market_data,        \* table market_data: sequence of cached quotes
    system_logs,        \* table system_logs: sequence of rows
    broker,             \* requests received by the brokerage API, in order
    credentials,        \* growService.credentials: <<>> (null) or <<record>>
    proc,               \* the call in flight of each caller: locals and position
    initCalls,          \* initialize calls made so far
    execCalls,          \* executeStrategy calls made so far
    tickCalls,          \* monitorPositions calls made so far
    exitCalls,          \* manual exits (handleExit) made so far
    faultBudget,        \* collaborator failures that may still be injected
    storeFails          \* whether calls to the remote store may fail as well

vars == <<user_settings, trading_strategies, positions, trades, market_data,
          system_logs, broker, credentials, proc, initCalls, execCalls,
          tickCalls, exitCalls, faultBudget, storeFails>>

store == <<user_settings, trading_strategies, positions, trades, market_data,
           system_logs>>

\* the callers: executeStrategy, monitorPositions, LivePositions.handleExit
Procs == {"exec", "mon", "man"}

\* outcome of one awaited store call: data returned, {data: null, error}
\* returned, or the promise rejected
StoreOutcomes ==
    IF storeFails /\ faultBudget > 0 THEN {"ok", "error", "throw"} ELSE {"ok"}
\* outcome of one awaited HTTP call to the broker: a response, or the
\* request rejected (no connection, timeout, HTTP error status)
HttpOutcomes == IF faultBudget > 0 THEN {"ok", "throw"} ELSE {"ok"}
Spend(out) ==
    /\ faultBudget' = IF out = "ok" THEN faultBudget ELSE faultBudget - 1
    /\ UNCHANGED storeFails

NoRequest == [symbol |-> <<>>, action |-> NULL, quantity |-> 0,
              orderType |-> NULL, product |-> NULL]
NoResponse == [orderId |-> 0, status |-> NULL]
NoBase == [positions |-> 0, trades |-> 0, logs |-> 0, broker |-> 0, market |-> 0,
           rows |-> <<>>, seq |-> 0, settings |-> {}, strategies |-> {}]

IdleProc ==
    [pc |-> "idle", userId |-> NULL, strategyId |-> NULL, legs |-> <<>>,
     i |-> 0, settings |-> {}, dailyPnl |-> 0, canTrade |-> NULL,
     loaded |-> <<>>, ltp |-> 0, pnl |-> 0, branch |-> NULL,
     positionId |-> 0, position |-> <<>>, request |-> NoRequest,
     tradeId |-> 0, response |-> NoResponse, error |-> NULL,
     result |-> NULL, base |-> NoBase, responses |-> <<>>, created |-> <<>>,
     calls |-> 0, faults |-> <<>>, exits |-> <<>>, pnls |-> <<>>,
     prev |-> <<>>]

\* history (prev): the record of the caller's previous, settled call
Previous(p) ==
    IF proc[p].pc = "done" THEN <<[proc[p] EXCEPT !.prev = <<>>]>> ELSE <<>>

\* history (base): the sizes of the tables and the positions rows when the
\* service call began, the number of service calls begun before it, and the
\* settings and strategies tables at that time
\* history: the awaited calls of this service call that failed, and how;
\* (exits) the position ids exitPosition was called with; (pnls) the P&L
\* computed for each position processed by the tick
Note(r, out) ==
    IF out = "ok" THEN r
    ELSE [r EXCEPT !.faults = Append(@, [at |-> r.pc, out |-> out])]

\* history: the authentication check of placeOrder / getMarketData threw
NoteAuth(r, at) == [r EXCEPT !.faults = Append(@, [at |-> at, out |-> "throw"])]

Base == [positions |-> Len(positions), trades |-> Len(trades),
         logs |-> Len(system_logs), broker |-> Len(broker),
         market |-> Len(market_data), rows |-> positions,
         seq |-> execCalls + tickCalls + exitCalls,
         settings |-> user_settings, strategies |-> trading_strategies]

\* -------------------------------------------------------------- table rows
SettingsRow(u, auto, maxOpen, maxLoss) ==
    [user_id |-> u, auto_trade_enabled |-> auto,
     max_open_positions |-> maxOpen, max_daily_loss |-> maxLoss]

LogRow(u, type, message, amount, symbol, strategyId, error, legs) ==
    [user_id |-> u, log_type |-> type, message |-> message, amount |-> amount,
     symbol |-> symbol, strategyId |-> strategyId, error |-> error,
     legs |-> legs]

\* the row executeStrategy inserts into positions for an EXECUTED leg
PositionRow(id, u, sid, orderId, leg) ==
    [id |-> id, user_id |-> u, strategy_id |-> sid,
     broker_order_id |-> orderId, symbol |-> leg.symbol,
     instrument_type |-> leg.instrumentType, strike_price |-> leg.strikePrice,
     expiry_date |-> leg.expiryDate, action |-> leg.action,
     quantity |-> leg.quantity, entry_price |-> 0, current_price |-> 0,
     exit_price |-> <<>>, pnl |-> 0, status |-> "OPEN",
     created_at |-> Today, closed_at |-> <<>>]

\* the row placeOrder inserts into trades before calling the broker
TradeRow_executed(id, u, req) ==
    [id |-> id, user_id |-> u, order_type |-> req.orderType,
     action |-> req.action, quantity |-> req.quantity, price |-> 0,
     status |-> "EXECUTED", broker_order_id |-> 0, executed_at |-> <<>>]

TradeRow(id, u, req) ==
    [id |-> id, user_id |-> u, order_type |-> req.orderType,
     action |-> req.action, quantity |-> req.quantity, price |-> 0,
     status |-> "PENDING", broker_order_id |-> 0, executed_at |-> <<>>]

CredentialsRow(token) == [accessToken |-> token]

\* StrategyService.calculatePnL
calculatePnL_noBankCheck(position, currentPrice) ==
    LET lotSize == IF Includes(position.symbol, NIFTY) THEN 50 ELSE 15
        priceChange == currentPrice - position.entry_price
        multiplier == IF position.action = "BUY" THEN 1 ELSE -1
    IN priceChange * multiplier * lotSize * position.quantity

calculatePnL_noSign(position, currentPrice) ==
    LET lotSize == IF Includes(position.symbol, NIFTY)
                      /\ ~Includes(position.symbol, BANK) THEN 50 ELSE 15
        priceChange == currentPrice - position.entry_price
    IN priceChange * lotSize * position.quantity

calculatePnL(position, currentPrice) ==
    LET lotSize == IF Includes(position.symbol, NIFTY)
                      /\ ~Includes(position.symbol, BANK) THEN 50 ELSE 15
        priceChange == currentPrice - position.entry_price
        multiplier == IF position.action = "BUY" THEN 1 ELSE -1
    IN priceChange * multiplier * lotSize * position.quantity

\* ------------------------------------------------------------ initial state
\* rows an earlier session left in positions: inserted by executeStrategy,
\* refreshed by monitorPositions, possibly closed by exitPosition
StoredRow(u, sid, leg, price, status, day) ==
    LET r == PositionRow(0, u, sid, 1, leg)
    IN [r EXCEPT !.current_price = price,
                 !.pnl = calculatePnL(r, price),
                 !.status = status,
                 !.created_at = day,
                 !.exit_price = IF status = "CLOSED" THEN <<price>> ELSE <<>>,
                 !.closed_at = IF status = "CLOSED" THEN <<day>> ELSE <<>>]

StoredRows ==
    {StoredRow(SessionUser, "s1", Leg(NIFTY, "CE", act, 2), p, "OPEN", d) :
        act \in {"BUY", "SELL"}, p \in Prices, d \in Days}
    \cup {StoredRow(SessionUser, "s1", Leg(NIFTY, "CE", act, 2), 120, "CLOSED", d) :
        act \in {"BUY", "SELL"}, d \in Days}
    \cup {StoredRow("u2", "s1", Leg(NIFTY, "PE", "SELL", 2), 120, "OPEN", Today),
          StoredRow(SessionUser, NULL, Leg(NIFTY, "PE", "SELL", 2), 120, "OPEN", Today)}

\* the rows offered when collaborator failures are explored as well
StoredRowsFaults ==
    {StoredRow(SessionUser, "s1", Leg(NIFTY, "PE", "SELL", 2), 120, "OPEN", Today),
     StoredRow(SessionUser, "s1", Leg(NIFTY, "CE", "BUY", 2), 120, "OPEN", Today),
     StoredRow(SessionUser, "s1", Leg(NIFTY, "PE", "SELL", 2), 100, "CLOSED", Today),
     StoredRow(SessionUser, NULL, Leg(NIFTY, "PE", "SELL", 2), 120, "OPEN", Today)}

WithIds(rows) == [k \in 1..Len(rows) |-> [rows[k] EXCEPT !.id = k]]

SettingsChoices ==
    {{}} \cup {{SettingsRow(SessionUser, auto, maxOpen, 10000)} :
                  auto \in BOOLEAN, maxOpen \in {1, 2}}

\* risk_params is free-form jsonb: thresholds present or absent, a target
\* below the stop-loss level, zero thresholds
RiskParamChoicesFaults ==
    {[maxLoss |-> <<10000>>, targetProfit |-> <<12000>>],
     [maxLoss |-> <<>>, targetProfit |-> <<>>]}

RiskParamChoices ==
    RiskParamChoicesFaults
    \cup {[maxLoss |-> <<10000>>, targetProfit |-> <<-12000>>],
          [maxLoss |-> <<0>>, targetProfit |-> <<0>>]}

InitWith(stored, params) ==
    /\ user_settings \in SettingsChoices
    /\ \E rp \in params :
          trading_strategies = {[id |-> "s1", user_id |-> SessionUser, risk_params |-> rp]}
    /\ \E rows \in SeqsUpTo(stored, MaxInitPositions) : positions = WithIds(rows)
    /\ trades = <<>>
    /\ market_data = <<>>
    /\ system_logs = <<>>
    /\ broker = <<>>
    /\ credentials = <<>>
    /\ proc = [p \in Procs |-> IdleProc]
    /\ initCalls = 0
    /\ execCalls = 0
    /\ tickCalls = 0
    /\ exitCalls = 0

\* the store answers every call; up to MaxFaults broker requests fail
Init == InitWith(StoredRows, RiskParamChoices) /\ faultBudget = MaxFaults /\ storeFails = FALSE
\* up to MaxFaults calls to the broker or to the store fail
InitFaults ==
    InitWith(StoredRowsFaults, RiskParamChoicesFaults) /\ faultBudget = MaxFaults /\ storeFails = TRUE

\* ----------------------------------------------------- GrowService.initialize
\* The active broker_credentials row of the user is an input: absent (<<>>),
\* or present with or without a stored access token.  An expired token is
\* refreshed; a failed refresh is caught and leaves the loaded credentials.
initialize(row, expired, refreshed) ==
    /\ row # <<>>
    /\ initCalls < MaxInit
    /\ initCalls' = initCalls + 1
    /\ credentials' = IF expired /\ refreshed THEN <<CredentialsRow(TRUE)>> ELSE row
    /\ UNCHANGED <<store, broker, proc, execCalls, tickCalls, exitCalls, faultBudget,
                   storeFails>>

\* this.credentials?.accessToken
Authenticated == credentials # <<>> /\ credentials[1].accessToken

\* ------------------------------------------------------ control-flow helpers
Set(p, r) == proc' = [proc EXCEPT ![p] = r]

Done(r, result, err) == [r EXCEPT !.pc = "done", !.result = result, !.error = err]

MonCatch_rethrow(r) == Done(r, "threw", StoreErrorMsg)

\* monitorPositions: catch (error) { console.error(...) }
MonCatch(r) == Done(r, "returned", NULL)

\* executeStrategy: catch (error) { await insert ERROR log; throw error }
ExecCatch(r, msg) == [r EXCEPT !.pc = "exec_catch", !.error = msg]

\* an error leaving placeOrder, getMarketData or exitPosition reaches the
\* try/catch of the service method that called it
\* (handleExit: catch (error) { alert(...) }, exitPosition has thrown)
Thrown(p, r, msg) ==
    IF p = "exec" THEN ExecCatch(r, msg)
    ELSE IF p = "mon" THEN MonCatch(r)
    ELSE Done(r, "threw", msg)

OrderRequest(symbol, action, quantity) ==
    [symbol |-> symbol, action |-> action, quantity |-> quantity,
     orderType |-> "MARKET", product |-> "INTRADAY"]

BrokerCall(kind, u, req) ==
    [kind |-> kind, userId |-> u, symbol |-> req.symbol, action |-> req.action,
     quantity |-> req.quantity, orderType |-> req.orderType,
     product |-> req.product]

\* placeOrder up to its first await: the authentication check, then the
\* trades insert is issued
placeOrder(p, r, req) ==
    LET c == [r EXCEPT !.calls = @ + 1, !.request = req, !.tradeId = 0,
                       !.response = NoResponse]
    IN IF ~Authenticated THEN Thrown(p, NoteAuth(c, "po_auth"), NotAuthenticatedMsg)
       ELSE [c EXCEPT !.pc = "po_insert"]

ExecLoop_reversed(r, i) ==
    IF i > Len(r.legs) THEN [r EXCEPT !.i = i, !.pc = "exec_log"]
    ELSE placeOrder("exec", [r EXCEPT !.i = i],
                    OrderRequest(r.legs[Len(r.legs) + 1 - i].symbol,
                                 r.legs[Len(r.legs) + 1 - i].action,
                                 r.legs[Len(r.legs) + 1 - i].quantity))

\* executeStrategy: for (const leg of legs), entered at leg i
ExecLoop(r, i) ==
    IF i > Len(r.legs) THEN [r EXCEPT !.i = i, !.pc = "exec_log"]
    ELSE placeOrder("exec", [r EXCEPT !.i = i],
                    OrderRequest(r.legs[i].symbol, r.legs[i].action,
                                 r.legs[i].quantity))

GateReturn_dedup(r, allow) ==
    IF ~allow THEN ExecCatch([r EXCEPT !.canTrade = "deny"], RiskLimitsMsg)
    ELSE IF \E k \in DOMAIN positions :
               positions[k].user_id = r.userId
               /\ positions[k].strategy_id = r.strategyId
         THEN [r EXCEPT !.canTrade = "allow", !.i = Len(r.legs) + 1,
                        !.pc = "exec_log"]
         ELSE ExecLoop([r EXCEPT !.canTrade = "allow"], 1)

GateReturn_ignore(r, allow) ==
    ExecLoop([r EXCEPT !.canTrade = IF allow THEN "allow" ELSE "deny"], 1)

\* checkRiskLimits returns to executeStrategy
GateReturn(r, allow) ==
    IF allow THEN ExecLoop([r EXCEPT !.canTrade = "allow"], 1)
    ELSE ExecCatch([r EXCEPT !.canTrade = "deny"], RiskLimitsMsg)

\* ------------------------------------------- StrategyService.executeStrategy
executeStrategy(userId, strategyId, legs) ==
    /\ proc["exec"].pc \in {"idle", "done"}
    /\ execCalls < MaxExec
    /\ execCalls' = execCalls + 1
    /\ Set("exec", [IdleProc EXCEPT !.pc = "gate_settings", !.userId = userId,
                                    !.strategyId = strategyId, !.legs = legs,
                                    !.base = Base, !.prev = Previous("exec")])
    /\ UNCHANGED <<store, broker, credentials, initCalls, tickCalls, exitCalls,
                   faultBudget, storeFails>>

\* the caller invokes executeStrategy again with the arguments of the call
\* that has settled
executeStrategy_retry ==
    LET r == proc["exec"]
    IN /\ r.pc = "done"
       /\ execCalls < MaxExec + MaxRetries
       /\ execCalls' = execCalls + 1
       /\ Set("exec", [IdleProc EXCEPT !.pc = "gate_settings",
                                       !.userId = r.userId,
                                       !.strategyId = r.strategyId,
                                       !.legs = r.legs, !.base = Base,
                                       !.prev = Previous("exec")])
       /\ UNCHANGED <<store, broker, credentials, initCalls, tickCalls, exitCalls,
                      faultBudget, storeFails>>

\* ------------------------------------------- StrategyService.checkRiskLimits
SettingsOf(userId) == {s \in user_settings : s.user_id = userId}

OpenPositionsOf(userId) ==
    SelectSeq(positions, LAMBDA row : row.user_id = userId /\ row.status = "OPEN")

TodayPositionsOf(userId) ==
    SelectSeq(positions, LAMBDA row : row.user_id = userId /\ row.created_at >= Today)

SettingsDeny_absentOnly(settings) == settings = {}

\* if (!settings || !settings.auto_trade_enabled)
SettingsDeny(settings) ==
    settings = {} \/ \E s \in settings : ~s.auto_trade_enabled

OpenLimitReached_gt(out, openPositions, settings) ==
    out = "ok" /\ Len(openPositions) > settings.max_open_positions

\* if (openPositions && openPositions.length >= settings.max_open_positions)
OpenLimitReached(out, openPositions, settings) ==
    out = "ok" /\ Len(openPositions) >= settings.max_open_positions

\* todayTrades?.reduce(...) || 0
DailyPnl(out, todayTrades) == IF out = "ok" THEN SumPnl(todayTrades) ELSE 0

DailyLossExceeded_le(dailyPnl, settings) == dailyPnl <= -settings.max_daily_loss

\* if (dailyPnl < -settings.max_daily_loss)
DailyLossExceeded(dailyPnl, settings) == dailyPnl < -settings.max_daily_loss

DailyLossWarning_signed(userId, dailyPnl) ==
    LogRow(userId, "WARNING", "Daily loss limit reached", dailyPnl, <<>>,
           NULL, NULL, <<>>)

\* the WARNING row: `Daily loss limit reached: Rs ${Math.abs(dailyPnl)}`
DailyLossWarning(userId, dailyPnl) ==
    LogRow(userId, "WARNING", "Daily loss limit reached", Abs(dailyPnl), <<>>,
           NULL, NULL, <<>>)

WarnReturn_allow(r) == GateReturn(r, TRUE)

\* after the insert of the WARNING row: return false
WarnReturn(r) == GateReturn(r, FALSE)

checkRiskLimits_settings(out) ==
    LET r == Note(proc["exec"], out)
        settings == IF out = "ok" THEN SettingsOf(r.userId) ELSE {}
    IN /\ r.pc = "gate_settings"
       /\ Spend(out)
       /\ Set("exec",
              IF out = "throw" THEN GateReturn(r, FALSE)
              ELSE IF SettingsDeny(settings) THEN GateReturn(r, FALSE)
              ELSE [r EXCEPT !.settings = settings, !.pc = "gate_open"])
       /\ UNCHANGED <<store, broker, credentials, initCalls, execCalls, tickCalls, exitCalls>>

checkRiskLimits_open(out) ==
    LET r == Note(proc["exec"], out)
        settings == CHOOSE s \in r.settings : TRUE
        openPositions == OpenPositionsOf(r.userId)
    IN /\ r.pc = "gate_open"
       /\ Spend(out)
       /\ Set("exec",
              IF out = "throw" THEN GateReturn(r, FALSE)
              ELSE IF OpenLimitReached(out, openPositions, settings)
                   THEN GateReturn(r, FALSE)
              ELSE [r EXCEPT !.pc = "gate_today"])
       /\ UNCHANGED <<store, broker, credentials, initCalls, execCalls, tickCalls, exitCalls>>

checkRiskLimits_today(out) ==
    LET r == Note(proc["exec"], out)
        settings == CHOOSE s \in r.settings : TRUE
        dailyPnl == DailyPnl(out, TodayPositionsOf(r.userId))
    IN /\ r.pc = "gate_today"
       /\ Spend(out)
       /\ Set("exec",
              IF out = "throw" THEN GateReturn(r, FALSE)
              ELSE IF DailyLossExceeded(dailyPnl, settings)
                   THEN [r EXCEPT !.dailyPnl = dailyPnl, !.pc = "gate_warn"]
              ELSE GateReturn([r EXCEPT !.dailyPnl = dailyPnl], TRUE))
       /\ UNCHANGED <<store, broker, credentials, initCalls, execCalls, tickCalls, exitCalls>>

checkRiskLimits_warn(out) ==
    LET r == Note(proc["exec"], out)
    IN /\ r.pc = "gate_warn"
       /\ Spend(out)
       /\ system_logs' =
             IF out = "ok"
             THEN Append(system_logs, DailyLossWarning(r.userId, r.dailyPnl))
             ELSE system_logs
       /\ Set("exec", WarnReturn(r))
       /\ UNCHANGED <<user_settings, trading_strategies, positions, trades,
                      market_data, broker, credentials, initCalls, execCalls, tickCalls, exitCalls>>

\* ------------------------------------- executeStrategy, after placeOrder
executeStrategy_insert(out) ==
    LET r == Note(proc["exec"], out)
        row == PositionRow(Len(positions) + 1, r.userId, r.strategyId,
                           r.response.orderId, r.legs[r.i])
    IN /\ r.pc = "exec_insert"
       /\ Spend(out)
       /\ positions' = IF out = "ok" THEN Append(positions, row) ELSE positions
       /\ Set("exec",
              IF out = "throw" THEN ExecCatch(r, StoreErrorMsg)
              ELSE ExecLoop([r EXCEPT !.created =
                                IF out = "ok" THEN Append(@, row) ELSE @],
                            r.i + 1))
       /\ UNCHANGED <<user_settings, trading_strategies, trades, market_data,
                      system_logs, broker, credentials, initCalls, execCalls, tickCalls, exitCalls>>

StrategyExecutedLog_noLegs(r) ==
    LogRow(r.userId, "TRADE", "Strategy executed", 0, <<>>, r.strategyId, NULL,
           <<>>)

\* the TRADE row: `Strategy executed: ${strategyId}`, metadata: { legs }
StrategyExecutedLog(r) ==
    LogRow(r.userId, "TRADE", "Strategy executed", 0, <<>>, r.strategyId, NULL,
           r.legs)

\* the ERROR row: `Strategy execution failed: ${error.message}`,
\* metadata: { strategyId, error: error.message }
StrategyFailedLog(r) ==
    LogRow(r.userId, "ERROR", "Strategy execution failed", 0, <<>>, r.strategyId,
           r.error, <<>>)

Rethrow_swallow(r, out) == Done(r, "returned", NULL)

\* executeStrategy's catch, after the insert of the ERROR row: throw error
Rethrow(r, out) ==
    Done(r, "threw", IF out = "throw" THEN StoreErrorMsg ELSE r.error)

executeStrategy_log(out) ==
    LET r == Note(proc["exec"], out)
    IN /\ r.pc = "exec_log"
       /\ Spend(out)
       /\ system_logs' =
             IF out = "ok"
             THEN Append(system_logs, StrategyExecutedLog(r))
             ELSE system_logs
       /\ Set("exec", IF out = "throw" THEN ExecCatch(r, StoreErrorMsg)
                      ELSE Done(r, "returned", NULL))
       /\ UNCHANGED <<user_settings, trading_strategies, positions, trades,
                      market_data, broker, credentials, initCalls, execCalls, tickCalls, exitCalls>>

executeStrategy_catch(out) ==
    LET r == Note(proc["exec"], out)
    IN /\ r.pc = "exec_catch"
       /\ Spend(out)
       /\ system_logs' =
             IF out = "ok"
             THEN Append(system_logs, StrategyFailedLog(r))
             ELSE system_logs
       /\ Set("exec", Rethrow(r, out))
       /\ UNCHANGED <<user_settings, trading_strategies, positions, trades,
                      market_data, broker, credentials, initCalls, execCalls, tickCalls, exitCalls>>

\* ----------------------------------------------------- GrowService.placeOrder
\* exitPosition returns its order response: to monitorPositions, which then
\* awaits the insert of the WARNING / INFO log, or to handleExit
exitPosition_return(p, r) ==
    IF p = "mon" THEN [r EXCEPT !.pc = "mon_log"] ELSE Done(r, "returned", NULL)

Returned_notRejected(p, r) ==
    IF p = "exec"
    THEN LET r2 == [r EXCEPT !.responses = Append(@, r.response)]
         IN IF r.response.status # "REJECTED"
            THEN [r2 EXCEPT !.pc = "exec_insert"]
            ELSE ExecLoop(r2, r.i + 1)
    ELSE IF r.response.status = "EXECUTED"
         THEN [r EXCEPT !.pc = "exit_update"]
         ELSE exitPosition_return(p, r)

\* placeOrder returns orderResponse to its caller
Returned(p, r) ==
    IF p = "exec"
    THEN LET r2 == [r EXCEPT !.responses = Append(@, r.response)]
         IN IF r.response.status = "EXECUTED"
            THEN [r2 EXCEPT !.pc = "exec_insert"]
            ELSE ExecLoop(r2, r.i + 1)
    ELSE IF r.response.status = "EXECUTED"
         THEN [r EXCEPT !.pc = "exit_update"]
         ELSE exitPosition_return(p, r)

\* placeOrder: catch (error) { console.error; await insert ERROR log; throw }
PlaceOrderCatch(r, msg) == [r EXCEPT !.pc = "po_fail", !.error = msg]

placeOrder_insert(p, out) ==
    LET r == Note(proc[p], out)
        id == Len(trades) + 1
    IN /\ r.pc = "po_insert"
       /\ Spend(out)
       /\ trades' = IF out = "ok" THEN Append(trades, TradeRow(id, r.userId, r.request))
                    ELSE trades
       /\ Set(p, IF out = "ok" THEN [r EXCEPT !.tradeId = id, !.pc = "po_post"]
                 ELSE PlaceOrderCatch(r, StoreErrorMsg))
       /\ UNCHANGED <<user_settings, trading_strategies, positions, market_data,
                      system_logs, broker, credentials, initCalls, execCalls, tickCalls, exitCalls>>

placeOrder_post(p, out, status) ==
    LET r == Note(proc[p], out)
    IN /\ r.pc = "po_post"
       /\ Spend(out)
       /\ broker' = Append(broker, BrokerCall("order", r.userId, r.request))
       /\ Set(p, IF out = "ok"
                 THEN [r EXCEPT !.response = [orderId |-> Len(broker) + 1,
                                              status |-> status],
                                !.pc = "po_update"]
                 ELSE PlaceOrderCatch(r, BrokerErrorMsg))
       /\ UNCHANGED <<store, credentials, initCalls, execCalls, tickCalls, exitCalls>>

placeOrder_update(p, out) ==
    LET r == Note(proc[p], out)
    IN /\ r.pc = "po_update"
       /\ Spend(out)
       /\ trades' =
             IF out = "ok"
             THEN [trades EXCEPT ![r.tradeId] =
                      [@ EXCEPT !.broker_order_id = r.response.orderId,
                                !.status = r.response.status,
                                !.executed_at =
                                    IF r.response.status = "EXECUTED"
                                    THEN <<Today>> ELSE <<>>]]
             ELSE trades
       /\ Set(p, IF out = "throw" THEN PlaceOrderCatch(r, StoreErrorMsg)
                 ELSE [r EXCEPT !.pc = "po_log"])
       /\ UNCHANGED <<user_settings, trading_strategies, positions, market_data,
                      system_logs, broker, credentials, initCalls, execCalls, tickCalls, exitCalls>>

placeOrder_log(p, out) ==
    LET r == Note(proc[p], out)
    IN /\ r.pc = "po_log"
       /\ Spend(out)
       /\ system_logs' =
             IF out = "ok"
             THEN Append(system_logs,
                         LogRow(r.userId, "TRADE", "Order placed",
                                r.request.quantity, r.request.symbol, NULL, NULL,
                                <<>>))
             ELSE system_logs
       /\ Set(p, IF out = "throw" THEN PlaceOrderCatch(r, StoreErrorMsg)
                 ELSE Returned(p, r))
       /\ UNCHANGED <<user_settings, trading_strategies, positions, trades,
                      market_data, broker, credentials, initCalls, execCalls, tickCalls, exitCalls>>

placeOrder_fail(p, out) ==
    LET r == Note(proc[p], out)
    IN /\ r.pc = "po_fail"
       /\ Spend(out)
       /\ system_logs' =
             IF out = "ok"
             THEN Append(system_logs,
                         LogRow(r.userId, "ERROR", "Order failed", 0,
                                r.request.symbol, NULL, r.error, <<>>))
             ELSE system_logs
       /\ Set(p, Thrown(p, r, IF out = "throw" THEN StoreErrorMsg ELSE r.error))
       /\ UNCHANGED <<user_settings, trading_strategies, positions, trades,
                      market_data, broker, credentials, initCalls, execCalls, tickCalls, exitCalls>>

\* --------------------------------------------------- GrowService.exitPosition
ExitOrder_sameSide(position) ==
    OrderRequest(position.symbol, position.action, position.quantity)

\* const exitOrder: OrderRequest = { symbol, action: opposite, quantity,
\* orderType: 'MARKET', product: 'INTRADAY' }
ExitOrder(position) ==
    OrderRequest(position.symbol,
                 IF position.action = "BUY" THEN "SELL" ELSE "BUY",
                 position.quantity)

exitPosition(p, r, positionId) ==
    [r EXCEPT !.pc = "exit_select", !.positionId = positionId, !.position = <<>>,
              !.exits = Append(@, positionId)]

\* LivePositions.handleExit: await growService.exitPosition(user.id, positionId)
handleExit(userId, positionId) ==
    /\ proc["man"].pc \in {"idle", "done"}
    /\ exitCalls < MaxExits
    /\ exitCalls' = exitCalls + 1
    /\ Set("man", exitPosition("man", [IdleProc EXCEPT !.userId = userId,
                                                       !.base = Base],
                               positionId))
    /\ UNCHANGED <<store, broker, credentials, initCalls, execCalls, tickCalls,
                   faultBudget, storeFails>>

FindPosition_anyOwner(positionId, userId) ==
    SelectSeq(positions, LAMBDA row : row.id = positionId)

\* from('positions').select('*').eq('id', positionId).eq('user_id', userId)
\* .single()
FindPosition(positionId, userId) ==
    SelectSeq(positions, LAMBDA row : row.id = positionId /\ row.user_id = userId)

exitPosition_select(p, out) ==
    LET r == Note(proc[p], out)
        found == IF out = "ok" THEN FindPosition(r.positionId, r.userId) ELSE <<>>
    IN /\ r.pc = "exit_select"
       /\ Spend(out)
       /\ Set(p, IF out = "throw" THEN Thrown(p, r, StoreErrorMsg)
                 ELSE IF found = <<>> THEN Thrown(p, r, PositionNotFoundMsg)
                 ELSE placeOrder(p, [r EXCEPT !.position = found],
                                 ExitOrder(found[1])))
       /\ UNCHANGED <<store, broker, credentials, initCalls, execCalls, tickCalls, exitCalls>>

exitPosition_update(p, out) ==
    LET r == Note(proc[p], out)
    IN /\ r.pc = "exit_update"
       /\ Spend(out)
       /\ positions' =
             IF out = "ok"
             THEN [positions EXCEPT ![r.positionId] =
                      [@ EXCEPT !.status = "CLOSED",
                                !.closed_at = <<Today>>,
                                !.exit_price = <<r.position[1].current_price>>]]
             ELSE positions
       /\ Set(p, IF out = "throw" THEN Thrown(p, r, StoreErrorMsg)
                 ELSE exitPosition_return(p, r))
       /\ UNCHANGED <<user_settings, trading_strategies, trades, market_data,
                      system_logs, broker, credentials, initCalls, execCalls, tickCalls, exitCalls>>

\* ------------------------------------------ StrategyService.monitorPositions
\* getMarketData up to its first await: the authentication check
getMarketData(r) ==
    IF ~Authenticated THEN MonCatch(NoteAuth(r, "md_auth"))
    ELSE [r EXCEPT !.pc = "md_get"]

\* monitorPositions: for (const position of positions), entered at position i
MonLoop(r, i) ==
    IF i > Len(r.loaded) THEN Done([r EXCEPT !.i = i], "returned", NULL)
    ELSE getMarketData([r EXCEPT !.i = i])

Joined_anyStrategy(row) ==
    [row |-> row,
     trading_strategies |-> <<CHOOSE st \in trading_strategies : TRUE>>]

\* select('*, trading_strategies(*)'): each row joined with its strategy
\* (Joined, JoinAll)
Joined(row) ==
    [row |-> row,
     trading_strategies |->
        IF \E st \in trading_strategies : st.id = row.strategy_id
        THEN <<CHOOSE st \in trading_strategies : st.id = row.strategy_id>>
        ELSE <<>>]

RECURSIVE JoinAll(_)
JoinAll(rows) ==
    IF rows = <<>> THEN <<>> ELSE <<Joined(Head(rows))>> \o JoinAll(Tail(rows))

LoadOpenPositions_anyStatus(userId) ==
    JoinAll(SelectSeq(positions, LAMBDA row : row.user_id = userId))

\* from('positions').select('*, trading_strategies(*)').eq('user_id', userId)
\* .eq('status', 'OPEN')
LoadOpenPositions(userId) == JoinAll(OpenPositionsOf(userId))

\* riskParams.maxLoss && ..., riskParams.targetProfit && ...
Truthy(field) == field # <<>> /\ field[1] # 0

ExitRule_targetFirst(riskParams, pnl) ==
    IF Truthy(riskParams.targetProfit) /\ pnl >= riskParams.targetProfit[1]
    THEN "target"
    ELSE IF Truthy(riskParams.maxLoss) /\ pnl <= -riskParams.maxLoss[1]
    THEN "stop"
    ELSE "none"

\* if (riskParams.maxLoss && pnl <= -riskParams.maxLoss) { ... }
\* else if (riskParams.targetProfit && pnl >= riskParams.targetProfit) { ... }
ExitRule(riskParams, pnl) ==
    IF Truthy(riskParams.maxLoss) /\ pnl <= -riskParams.maxLoss[1]
    THEN "stop"
    ELSE IF Truthy(riskParams.targetProfit) /\ pnl >= riskParams.targetProfit[1]
    THEN "target"
    ELSE "none"

monitorPositions(userId) ==
    /\ proc["mon"].pc \in {"idle", "done"}
    /\ tickCalls < MaxTicks
    /\ tickCalls' = tickCalls + 1
    /\ Set("mon", [IdleProc EXCEPT !.pc = "mon_load", !.userId = userId,
                                   !.base = Base, !.prev = Previous("mon")])
    /\ UNCHANGED <<store, broker, credentials, initCalls, execCalls, exitCalls,
                   faultBudget, storeFails>>

monitorPositions_load(out) ==
    LET r == Note(proc["mon"], out)
        loaded == IF out = "ok" THEN LoadOpenPositions(r.userId) ELSE <<>>
    IN /\ r.pc = "mon_load"
       /\ Spend(out)
       /\ Set("mon", IF out = "throw" THEN MonCatch(r)
                     ELSE IF Len(loaded) = 0 THEN Done(r, "returned", NULL)
                     ELSE MonLoop([r EXCEPT !.loaded = loaded], 1))
       /\ UNCHANGED <<store, broker, credentials, initCalls, execCalls, tickCalls, exitCalls>>

getMarketData_get(out, ltp) ==
    LET r == Note(proc["mon"], out)
        symbol == r.loaded[r.i].row.symbol
    IN /\ r.pc = "md_get"
       /\ Spend(out)
       /\ broker' = Append(broker, BrokerCall("quote", NULL,
                                              [NoRequest EXCEPT !.symbol = symbol]))
       /\ Set("mon", IF out = "ok" THEN [r EXCEPT !.ltp = ltp, !.pc = "md_cache"]
                     ELSE MonCatch(r))
       /\ UNCHANGED <<store, credentials, initCalls, execCalls, tickCalls, exitCalls>>

getMarketData_cache(out) ==
    LET r == Note(proc["mon"], out)
        position == r.loaded[r.i].row
    IN /\ r.pc = "md_cache"
       /\ Spend(out)
       /\ market_data' =
             IF out = "ok"
             THEN Append(market_data, [symbol |-> position.symbol, ltp |-> r.ltp])
             ELSE market_data
       /\ Set("mon", IF out = "throw" THEN MonCatch(r)
                     ELSE [r EXCEPT !.pnl = calculatePnL(position, r.ltp),
                                    !.pnls = Append(@, calculatePnL(position, r.ltp)),
                                    !.pc = "mon_update"])
       /\ UNCHANGED <<user_settings, trading_strategies, positions, trades,
                      system_logs, broker, credentials, initCalls, execCalls, tickCalls, exitCalls>>

monitorPositions_update(out) ==
    LET r == Note(proc["mon"], out)
        position == r.loaded[r.i].row
        strategy == r.loaded[r.i].trading_strategies
        riskParams == strategy[1].risk_params
    IN /\ r.pc = "mon_update"
       /\ Spend(out)
       /\ positions' =
             IF out = "ok"
             THEN [positions EXCEPT ![position.id] =
                      [@ EXCEPT !.current_price = r.ltp, !.pnl = r.pnl]]
             ELSE positions
       /\ Set("mon",
              IF out = "throw" THEN MonCatch(r)
              ELSE IF strategy = <<>> THEN MonLoop(r, r.i + 1)
              ELSE IF ExitRule(riskParams, r.pnl) # "none"
                   THEN exitPosition("mon",
                                     [r EXCEPT !.branch = ExitRule(riskParams, r.pnl)],
                                     position.id)
              ELSE MonLoop(r, r.i + 1))
       /\ UNCHANGED <<user_settings, trading_strategies, trades, market_data,
                      system_logs, broker, credentials, initCalls, execCalls, tickCalls, exitCalls>>

monitorPositions_log(out) ==
    LET r == Note(proc["mon"], out)
        position == r.loaded[r.i].row
    IN /\ r.pc = "mon_log"
       /\ Spend(out)
       /\ system_logs' =
             IF out = "ok"
             THEN Append(system_logs,
                         IF r.branch = "stop"
                         THEN LogRow(r.userId, "WARNING", "Stop loss hit for position",
                                     0, position.symbol, NULL, NULL, <<>>)
                         ELSE LogRow(r.userId, "INFO",
                                     "Target profit reached for position",
                                     0, position.symbol, NULL, NULL, <<>>))
             ELSE system_logs
       /\ Set("mon", IF out = "throw" THEN MonCatch(r) ELSE MonLoop(r, r.i + 1))
       /\ UNCHANGED <<user_settings, trading_strategies, positions, trades,
                      market_data, broker, credentials, initCalls, execCalls, tickCalls, exitCalls>>

\* ------------------------------------------------------------ specification
CredentialRows == {<<CredentialsRow(TRUE)>>, <<CredentialsRow(FALSE)>>}

\* no service call is in flight, and another one may begin
Quiescent ==
    /\ \A p \in Procs : proc[p].pc \in {"idle", "done"}
    /\ execCalls + tickCalls + exitCalls < MaxCalls

\* One logical thread of control per user session: a service method is
\* called when the previous call has settled.
Next ==
    \/ \E row \in CredentialRows, expired \in BOOLEAN, refreshed \in BOOLEAN :
          (\A p \in Procs : proc[p].pc \in {"idle", "done"})
          /\ initialize(row, expired, refreshed)
    \/ \E sid \in StrategyIds, legs \in SeqsUpTo(LegChoices, MaxLegs) :
          Quiescent /\ executeStrategy(SessionUser, sid, legs)
    \/ \E out \in StoreOutcomes : checkRiskLimits_settings(out)
    \/ \E out \in StoreOutcomes : checkRiskLimits_open(out)
    \/ \E out \in StoreOutcomes : checkRiskLimits_today(out)
    \/ \E out \in StoreOutcomes : checkRiskLimits_warn(out)
    \/ \E p \in Procs, out \in StoreOutcomes : placeOrder_insert(p, out)
    \/ \E p \in Procs, out \in HttpOutcomes, status \in OrderStatuses :
          placeOrder_post(p, out, status)
    \/ \E p \in Procs, out \in StoreOutcomes : placeOrder_update(p, out)
    \/ \E p \in Procs, out \in StoreOutcomes : placeOrder_log(p, out)
    \/ \E p \in Procs, out \in StoreOutcomes : placeOrder_fail(p, out)
    \/ \E out \in StoreOutcomes : executeStrategy_insert(out)
    \/ \E out \in StoreOutcomes : executeStrategy_log(out)
    \/ \E out \in StoreOutcomes : executeStrategy_catch(out)
    \/ Quiescent /\ monitorPositions(SessionUser)
    \/ \E out \in StoreOutcomes : monitorPositions_load(out)
    \/ \E out \in HttpOutcomes, ltp \in Prices : getMarketData_get(out, ltp)
    \/ \E out \in StoreOutcomes : getMarketData_cache(out)
    \/ \E out \in StoreOutcomes : monitorPositions_update(out)
    \/ \E p \in Procs, out \in StoreOutcomes : exitPosition_select(p, out)
    \/ \E p \in Procs, out \in StoreOutcomes : exitPosition_update(p, out)
    \/ \E out \in StoreOutcomes : monitorPositions_log(out)

Spec == Init /\ [][Next]_vars
SpecFaults == InitFaults /\ [][Next]_vars

\* ------------------------------------------------ manual exits on their own
\* LivePositions: the user presses Exit on a listed position; the list may be
\* stale, and exitPosition accepts any id
NextExit ==
    \/ \E row \in CredentialRows, expired \in BOOLEAN, refreshed \in BOOLEAN :
          proc["man"].pc \in {"idle", "done"}
          /\ initialize(row, expired, refreshed)
    \/ \E id \in 1..(Len(positions) + 1) : handleExit(SessionUser, id)
    \/ \E out \in StoreOutcomes : exitPosition_select("man", out)
    \/ \E out \in StoreOutcomes : placeOrder_insert("man", out)
    \/ \E out \in HttpOutcomes, status \in OrderStatuses :
          placeOrder_post("man", out, status)
    \/ \E out \in StoreOutcomes : placeOrder_update("man", out)
    \/ \E out \in StoreOutcomes : placeOrder_log("man", out)
    \/ \E out \in StoreOutcomes : placeOrder_fail("man", out)
    \/ \E out \in StoreOutcomes : exitPosition_update("man", out)

InitExit ==
    InitWith(StoredRows, RiskParamChoicesFaults)
    /\ faultBudget = MaxFaults /\ storeFails = TRUE

SpecExit == InitExit /\ [][NextExit]_vars


\* ------------------------------------------- executeStrategy called again
NextRetry ==
    \/ \E row \in CredentialRows, expired \in BOOLEAN, refreshed \in BOOLEAN :
          proc["exec"].pc \in {"idle", "done"}
          /\ initialize(row, expired, refreshed)
    \/ \E sid \in StrategyIds, legs \in SeqsUpTo(LegChoices, MaxLegs) :
          executeStrategy(SessionUser, sid, legs)
    \/ executeStrategy_retry
    \/ \E out \in StoreOutcomes : checkRiskLimits_settings(out)
    \/ \E out \in StoreOutcomes : checkRiskLimits_open(out)
    \/ \E out \in StoreOutcomes : checkRiskLimits_today(out)
    \/ \E out \in StoreOutcomes : checkRiskLimits_warn(out)
    \/ \E out \in StoreOutcomes : placeOrder_insert("exec", out)
    \/ \E out \in HttpOutcomes, status \in OrderStatuses :
          placeOrder_post("exec", out, status)
    \/ \E out \in StoreOutcomes : placeOrder_update("exec", out)
    \/ \E out \in StoreOutcomes : placeOrder_log("exec", out)
    \/ \E out \in StoreOutcomes : placeOrder_fail("exec", out)
    \/ \E out \in StoreOutcomes : executeStrategy_insert(out)
    \/ \E out \in StoreOutcomes : executeStrategy_log(out)
    \/ \E out \in StoreOutcomes : executeStrategy_catch(out)

SpecRetry == Init /\ [][NextRetry]_vars

\* ------------------------------- a tick and a manual exit running together
\* LivePositions lists the OPEN positions of the user (fetchPositions); the
\* user presses Exit on one of them
Listed(userId) ==
    {id \in DOMAIN positions : /\ positions[id].user_id = userId
                               /\ positions[id].status = "OPEN"}

\* another service call may begin
CallsLeft == execCalls + tickCalls + exitCalls < MaxCalls

\* The timer starts a tick and the user presses Exit whenever they like: each
\* call runs from one await to the next, interleaved with the other.
NextOverlap ==
    \/ \E row \in CredentialRows, expired \in BOOLEAN, refreshed \in BOOLEAN :
          (\A p \in Procs : proc[p].pc \in {"idle", "done"})
          /\ initialize(row, expired, refreshed)
    \/ CallsLeft /\ monitorPositions(SessionUser)
    \/ \E id \in Listed(SessionUser) : CallsLeft /\ handleExit(SessionUser, id)
    \/ \E out \in StoreOutcomes : monitorPositions_load(out)
    \/ \E out \in HttpOutcomes, ltp \in Prices : getMarketData_get(out, ltp)
    \/ \E out \in StoreOutcomes : getMarketData_cache(out)
    \/ \E out \in StoreOutcomes : monitorPositions_update(out)
    \/ \E p \in {"mon", "man"}, out \in StoreOutcomes : exitPosition_select(p, out)
    \/ \E p \in {"mon", "man"}, out \in StoreOutcomes : placeOrder_insert(p, out)
    \/ \E p \in {"mon", "man"}, out \in HttpOutcomes, status \in OrderStatuses :
          placeOrder_post(p, out, status)
    \/ \E p \in {"mon", "man"}, out \in StoreOutcomes : placeOrder_update(p, out)
    \/ \E p \in {"mon", "man"}, out \in StoreOutcomes : placeOrder_log(p, out)
    \/ \E p \in {"mon", "man"}, out \in StoreOutcomes : placeOrder_fail(p, out)
    \/ \E p \in {"mon", "man"}, out \in StoreOutcomes : exitPosition_update(p, out)
    \/ \E out \in StoreOutcomes : monitorPositions_log(out)

InitOverlap ==
    InitWith(StoredRowsFaults, RiskParamChoicesFaults)
    /\ user_settings = {}
    /\ faultBudget = MaxFaults /\ storeFails = FALSE

SpecOverlap == InitOverlap /\ [][NextOverlap]_vars

\* ------------------------------------------- ticks that keep being invoked
\* The session is initialized with a valid token.  Two OPEN positions of the
\* user: some position first, and after it a SELL position of strategy s1
\* (maxLoss 10000) whose P&L is -12000 and stays at or below -10000 at every
\* quote.
LivePosition == 2

InitLive ==
    /\ user_settings = {}
    /\ trading_strategies =
          {[id |-> "s1", user_id |-> SessionUser,
            risk_params |-> [maxLoss |-> <<10000>>, targetProfit |-> <<12000>>]]}
    /\ \E other \in {row \in StoredRows : row.user_id = SessionUser
                                          /\ row.status = "OPEN"} :
          positions = WithIds(<<other,
                                StoredRow(SessionUser, "s1",
                                          Leg(NIFTY, "PE", "SELL", 2), 120,
                                          "OPEN", Today)>>)
    /\ trades = <<>>
    /\ market_data = <<>>
    /\ system_logs = <<>>
    /\ broker = <<>>
    /\ credentials = <<CredentialsRow(TRUE)>>
    /\ proc = [p \in Procs |-> IdleProc]
    /\ initCalls = 1
    /\ execCalls = 0
    /\ tickCalls = 0
    /\ exitCalls = 0
    /\ faultBudget = MaxTicks
    /\ storeFails = FALSE

\* Only the quote of the first loaded position can fail, and it can fail in
\* every tick; the broker reports every order EXECUTED.
NextLive ==
    \/ monitorPositions(SessionUser)
    \/ \E out \in StoreOutcomes : monitorPositions_load(out)
    \/ \E out \in HttpOutcomes, ltp \in Prices :
          /\ proc["mon"].pc = "md_get"
          /\ out = "throw" => proc["mon"].loaded[proc["mon"].i].row.id # LivePosition
          /\ getMarketData_get(out, ltp)
    \/ \E out \in StoreOutcomes : getMarketData_cache(out)
    \/ \E out \in StoreOutcomes : monitorPositions_update(out)
    \/ \E out \in StoreOutcomes : exitPosition_select("mon", out)
    \/ \E out \in StoreOutcomes : placeOrder_insert("mon", out)
    \/ placeOrder_post("mon", "ok", "EXECUTED")
    \/ \E out \in StoreOutcomes : placeOrder_update("mon", out)
    \/ \E out \in StoreOutcomes : placeOrder_log("mon", out)
    \/ \E out \in StoreOutcomes : exitPosition_update("mon", out)
    \/ \E out \in StoreOutcomes : monitorPositions_log(out)

\* the polling timer keeps firing and every awaited call settles
SpecLive == InitLive /\ [][NextLive]_vars /\ WF_vars(NextLive)

\* --------------------------------------- calculatePnL as a function of inputs
\* positions and prices offered to calculatePnL
PnlSymbols == {NIFTY, BANKNIFTY, FINNIFTY, NIFTY50, NIFTYBANK, SENSEX}
PnlPrices == {0, 80, 100, 120}

PnlPositions ==
    {[PositionRow(1, SessionUser, NULL, 1, Leg(sym, "CE", act, q))
         EXCEPT !.entry_price = entry] :
        sym \in PnlSymbols, act \in {"BUY", "SELL"}, q \in 1..MaxQty,
        entry \in PnlPrices}

InitPnL ==
    /\ user_settings = {}
    /\ trading_strategies = {}
    /\ \E position \in PnlPositions : positions = <<position>>
    /\ trades = <<>>
    /\ market_data = <<>>
    /\ system_logs = <<>>
    /\ broker = <<>>
    /\ credentials = <<>>
    /\ proc = [p \in Procs |-> IdleProc]
    /\ initCalls = 0
    /\ execCalls = 0
    /\ tickCalls = 0
    /\ exitCalls = 0
    /\ faultBudget = 0
    /\ storeFails = FALSE

\* const pnl = this.calculatePnL(position, marketData.ltp)
calculatePnL_call(currentPrice) ==
    /\ proc["mon"].pc = "idle"
    /\ Set("mon", [IdleProc EXCEPT !.pc = "pnl", !.userId = SessionUser,
                                   !.position = <<positions[1]>>,
                                   !.ltp = currentPrice,
                                   !.pnl = calculatePnL(positions[1], currentPrice)])
    /\ UNCHANGED <<store, broker, credentials, initCalls, execCalls, tickCalls,
                   exitCalls, faultBudget, storeFails>>

NextPnL == \E currentPrice \in PnlPrices : calculatePnL_call(currentPrice)

SpecPnL == InitPnL /\ [][NextPnL]_vars

\* ================================================================ properties
\* p's call is the one begun last: nothing has run since it began but itself
Current(p) ==
    /\ proc[p].pc # "idle"
    /\ \A q \in Procs \ {p} :
          proc[q].pc = "idle" \/ proc[q].base.seq < proc[p].base.seq

\* reference quantities, computed from a positions table alone
OpenCount(rows, u) ==
    Cardinality({k \in DOMAIN rows : rows[k].user_id = u /\ rows[k].status = "OPEN"})

RECURSIVE PnlOver(_, _)
PnlOver(rows, ids) ==
    IF ids = {} THEN 0
    ELSE LET k == CHOOSE x \in ids : TRUE
         IN rows[k].pnl + PnlOver(rows, ids \ {k})

TodayPnlSum(rows, u) ==
    PnlOver(rows, {k \in DOMAIN rows :
                      rows[k].user_id = u /\ rows[k].created_at >= Today})

AutoTradeOn(u) ==
    \E s \in user_settings : s.user_id = u /\ s.auto_trade_enabled

RECURSIVE CountType(_, _)
CountType(rows, type) ==
    IF rows = <<>> THEN 0
    ELSE (IF Head(rows).log_type = type THEN 1 ELSE 0) + CountType(Tail(rows), type)

RowsSince(table, n) == SubSeq(table, n + 1, Len(table))

\* The gate reads the positions table as it stood when executeStrategy was
\* called (r.base.rows): calls do not overlap, and executeStrategy writes
\* nothing before the gate has returned.

\* C1: whenever the settings row of the user is absent or has
\* auto_trade_enabled false, the Risk Gate's decision is deny, whatever the
\* positions table holds.
C1_DisabledOrAbsentDenies ==
    LET r == proc["exec"]
    IN (r.canTrade # NULL /\ ~AutoTradeOn(r.userId)) => r.canTrade = "deny"

C1_Witness ==
    LET r == proc["exec"]
    IN /\ r.canTrade = "deny"
       /\ \E s \in user_settings : s.user_id = r.userId /\ ~s.auto_trade_enabled
       /\ OpenCount(r.base.rows, r.userId) = 0
       /\ TodayPnlSum(r.base.rows, r.userId) > 0

\* C2: when the gate has decided and the user's OPEN positions numbered at
\* least max_open_positions (the boundary included), the decision is deny.
C2_OpenLimitDenies ==
    LET r == proc["exec"]
    IN r.canTrade # NULL =>
          \A s \in user_settings :
             (s.user_id = r.userId
              /\ OpenCount(r.base.rows, r.userId) >= s.max_open_positions)
             => r.canTrade = "deny"

C2_Witness ==
    LET r == proc["exec"]
    IN /\ r.canTrade = "deny"
       /\ AutoTradeOn(r.userId)
       /\ \E s \in user_settings :
             /\ s.user_id = r.userId
             /\ OpenCount(r.base.rows, r.userId) = s.max_open_positions
       /\ TodayPnlSum(r.base.rows, r.userId) >= 0

\* C3: when the gate has decided with auto trading on, fewer OPEN positions
\* than max_open_positions and today's pnl sum strictly below
\* -max_daily_loss, the decision is deny and the call has written exactly one
\* WARNING log row, its first row, carrying the magnitude of the loss.
C3_DailyLossDeniesWithWarning ==
    LET r == proc["exec"]
        written == RowsSince(system_logs, r.base.logs)
    IN (Current("exec") /\ r.canTrade # NULL) =>
          \A s \in user_settings :
             (s.user_id = r.userId
              /\ s.auto_trade_enabled
              /\ OpenCount(r.base.rows, r.userId) < s.max_open_positions
              /\ TodayPnlSum(r.base.rows, r.userId) < -s.max_daily_loss)
             => /\ r.canTrade = "deny"
                /\ Len(written) >= 1
                /\ written[1] = LogRow(r.userId, "WARNING",
                                       "Daily loss limit reached",
                                       -TodayPnlSum(r.base.rows, r.userId),
                                       <<>>, NULL, NULL, <<>>)
                /\ CountType(written, "WARNING") = 1

C3_Witness ==
    LET r == proc["exec"]
    IN /\ r.canTrade = "deny"
       /\ r.pc = "exec_catch"
       /\ TodayPnlSum(r.base.rows, r.userId) = -12000
       /\ \E s \in user_settings : s.user_id = r.userId /\ s.max_daily_loss = 10000
       /\ Len(system_logs) = r.base.logs + 1
       /\ system_logs[Len(system_logs)].log_type = "WARNING"
       /\ system_logs[Len(system_logs)].amount = 12000

\* C4: if one of the gate's three store reads failed (rejected, or returned
\* no data with an error), the gate's decision is deny.
GateReads == {"gate_settings", "gate_open", "gate_today"}

C4_FailClosed ==
    LET r == proc["exec"]
    IN (r.canTrade # NULL /\ \E k \in DOMAIN r.faults : r.faults[k].at \in GateReads)
       => r.canTrade = "deny"

\* C5: the gate's decision is allow exactly when the settings row exists,
\* auto_trade_enabled is true, the OPEN count is below max_open_positions and
\* today's pnl sum is at least -max_daily_loss.
RiskReference(rows, u) ==
    \E s \in user_settings :
       /\ s.user_id = u
       /\ s.auto_trade_enabled
       /\ OpenCount(rows, u) < s.max_open_positions
       /\ TodayPnlSum(rows, u) >= -s.max_daily_loss

C5_GateEqualsReference ==
    LET r == proc["exec"]
    IN r.canTrade # NULL =>
          (r.canTrade = "allow" <=> RiskReference(r.base.rows, r.userId))

C5_Witness ==
    LET r == proc["exec"]
    IN /\ r.canTrade = "allow"
       /\ \E s \in user_settings :
             /\ s.user_id = r.userId
             /\ TodayPnlSum(r.base.rows, r.userId) = -s.max_daily_loss

\* executeStrategy has settled (returned or thrown) and nothing ran since
ExecSettled == Current("exec") /\ proc["exec"].pc = "done"

\* the legs whose order the broker reported EXECUTED, in leg order
RECURSIVE ExecutedLegs(_, _)
ExecutedLegs(legs, responses) ==
    IF legs = <<>> \/ responses = <<>> THEN <<>>
    ELSE (IF Head(responses).status = "EXECUTED" THEN <<Head(legs)>> ELSE <<>>)
         \o ExecutedLegs(Tail(legs), Tail(responses))

\* rows is one OPEN position of user u and strategy sid per leg of filled,
\* with the leg's symbol, side and quantity
OnePositionPerLeg(rows, filled, u, sid) ==
    /\ Len(rows) = Len(filled)
    /\ \A j \in DOMAIN rows :
          /\ rows[j].symbol = filled[j].symbol
          /\ rows[j].action = filled[j].action
          /\ rows[j].quantity = filled[j].quantity
          /\ rows[j].strategy_id = sid
          /\ rows[j].user_id = u
          /\ rows[j].status = "OPEN"

\* C6: when executeStrategy has settled after the gate denied, it has thrown
\* the 'Risk limits exceeded' error, made no placeOrder call, sent nothing to
\* the broker, left positions and trades as they were, and its last log row
\* is its one ERROR row, carrying that message and the strategy id.
C6_DenyPlacesNoOrder ==
    LET r == proc["exec"]
        written == RowsSince(system_logs, r.base.logs)
    IN (ExecSettled /\ r.canTrade = "deny") =>
          /\ r.result = "threw"
          /\ r.error = RiskLimitsMsg
          /\ r.calls = 0
          /\ Len(broker) = r.base.broker
          /\ positions = r.base.rows
          /\ Len(trades) = r.base.trades
          /\ Len(written) >= 1
          /\ written[Len(written)]
                = LogRow(r.userId, "ERROR", "Strategy execution failed", 0, <<>>,
                         r.strategyId, RiskLimitsMsg, <<>>)
          /\ CountType(written, "ERROR") = 1

C6_Witness ==
    LET r == proc["exec"]
    IN /\ ExecSettled
       /\ r.canTrade = "deny"
       /\ r.result = "threw"
       /\ Len(r.legs) = 2
       /\ Authenticated
       /\ Len(system_logs) = r.base.logs + 1

\* C7: when executeStrategy has settled after the gate allowed and none of
\* its calls threw or failed, it has returned, and the positions added by the
\* call are exactly one OPEN row per leg whose order was reported EXECUTED
\* (same symbol, side, quantity and strategy id), the earlier rows untouched.
C7_OnePositionPerExecutedLeg ==
    LET r == proc["exec"]
    IN (ExecSettled /\ r.canTrade = "allow" /\ r.faults = <<>>) =>
          /\ r.result = "returned"
          /\ Len(r.responses) = Len(r.legs)
          /\ SubSeq(positions, 1, r.base.positions) = r.base.rows
          /\ OnePositionPerLeg(RowsSince(positions, r.base.positions),
                               ExecutedLegs(r.legs, r.responses),
                               r.userId, r.strategyId)

C7_Witness ==
    LET r == proc["exec"]
    IN /\ ExecSettled
       /\ r.result = "returned"
       /\ Len(r.legs) = 2
       /\ r.responses[1].status = "REJECTED"
       /\ r.responses[2].status = "EXECUTED"
       /\ Len(positions) = r.base.positions + 1
       /\ positions[Len(positions)].symbol = r.legs[2].symbol

\* C8 as stated: a call of executeStrategy that has returned has written
\* exactly one TRADE log row, and that row lists the legs submitted.
C8_ExactlyOneTradeLog ==
    LET r == proc["exec"]
        written == RowsSince(system_logs, r.base.logs)
    IN (ExecSettled /\ r.result = "returned") =>
          /\ CountType(written, "TRADE") = 1
          /\ written[Len(written)].legs = r.legs

\* C8 as amended: a call of executeStrategy that has returned has written, as
\* its last log row, exactly one 'Strategy executed' TRADE row listing all
\* the legs submitted; the other rows it wrote are one 'Order placed' TRADE
\* row per leg, so Len(legs) + 1 TRADE rows in all.
C8_OneStrategyExecutedLog ==
    LET r == proc["exec"]
        written == RowsSince(system_logs, r.base.logs)
    IN (ExecSettled /\ r.result = "returned") =>
          /\ Len(written) = Len(r.legs) + 1
          /\ written[Len(written)]
                = LogRow(r.userId, "TRADE", "Strategy executed", 0, <<>>,
                         r.strategyId, NULL, r.legs)
          /\ \A j \in 1..Len(r.legs) :
                /\ written[j].log_type = "TRADE"
                /\ written[j].message = "Order placed"
                /\ written[j].symbol = r.legs[j].symbol

C8_Witness ==
    LET r == proc["exec"]
    IN /\ ExecSettled
       /\ r.result = "returned"
       /\ Len(r.legs) = 2
       /\ r.responses[1].status = "EXECUTED"
       /\ r.responses[2].status = "PENDING"
       /\ CountType(RowsSince(system_logs, r.base.logs), "TRADE") = 3

\* C9: when executeStrategy has settled after placeOrder raised at leg k (no
\* credentials, or one of placeOrder's awaited calls failed) and no call
\* outside placeOrder failed, then it has thrown the error placeOrder raised,
\* the rows added for the EXECUTED legs before k are OPEN as inserted and the
\* earlier rows untouched, placeOrder was called for legs 1..k only, its last
\* log row is the ERROR row with the error's message and the strategy id, and
\* it wrote no 'Strategy executed' row.
PlaceOrderAwaits == {"po_auth", "po_insert", "po_post", "po_update", "po_log"}

\* the message of the error that the failure f makes placeOrder raise
RaisedMsg(f) ==
    IF f.at = "po_auth" THEN NotAuthenticatedMsg
    ELSE IF f.at = "po_post" THEN BrokerErrorMsg
    ELSE StoreErrorMsg

PlaceOrderRaised(r) ==
    /\ r.faults # <<>>
    /\ \A j \in DOMAIN r.faults : r.faults[j].at \in PlaceOrderAwaits
    /\ LET f == r.faults[Len(r.faults)]
       IN f.out = "throw" \/ f.at = "po_insert"

C9_NoRollback ==
    LET r == proc["exec"]
        written == RowsSince(system_logs, r.base.logs)
    IN (ExecSettled /\ PlaceOrderRaised(r)) =>
          /\ r.result = "threw"
          /\ r.error = RaisedMsg(r.faults[Len(r.faults)])
          /\ r.calls = r.i
          /\ Len(r.responses) = r.i - 1
          /\ Len(RowsSince(broker, r.base.broker)) <= r.i
          /\ SubSeq(positions, 1, r.base.positions) = r.base.rows
          /\ OnePositionPerLeg(RowsSince(positions, r.base.positions),
                               ExecutedLegs(r.legs, r.responses),
                               r.userId, r.strategyId)
          /\ Len(written) >= 1
          /\ written[Len(written)]
                = LogRow(r.userId, "ERROR", "Strategy execution failed", 0, <<>>,
                         r.strategyId, r.error, <<>>)
          /\ \A j \in DOMAIN written : written[j].message # "Strategy executed"

C9_Witness ==
    LET r == proc["exec"]
    IN /\ ExecSettled
       /\ r.result = "threw"
       /\ r.i = 2
       /\ r.faults = <<[at |-> "po_post", out |-> "throw"]>>
       /\ r.error = BrokerErrorMsg
       /\ Len(positions) = r.base.positions + 1
       /\ positions[Len(positions)].status = "OPEN"

\* C10: a tick begun when the user has no OPEN position settles at its first
\* step, returning normally, and sends nothing to the broker and writes
\* nothing to positions, trades, market_data or system_logs.
C10_EmptyTickDoesNothing ==
    LET r == proc["mon"]
    IN (Current("mon") /\ OpenCount(r.base.rows, r.userId) = 0) =>
          /\ r.pc \in {"mon_load", "done"}
          /\ r.pc = "done" => r.result = "returned"
          /\ r.calls = 0
          /\ Len(broker) = r.base.broker
          /\ positions = r.base.rows
          /\ Len(trades) = r.base.trades
          /\ Len(market_data) = r.base.market
          /\ Len(system_logs) = r.base.logs

C10_Witness ==
    LET r == proc["mon"]
    IN /\ Current("mon")
       /\ r.pc = "done"
       /\ r.result = "returned"
       /\ r.faults = <<>>
       /\ Authenticated
       /\ OpenCount(r.base.rows, r.userId) = 0
       /\ \E k \in DOMAIN positions :
             positions[k].user_id = r.userId /\ positions[k].status = "CLOSED"

\* C11: for every position and current price, calculatePnL returns
\* (currentPrice - entryPrice) * sign * lotSize * quantity with sign +1 for
\* BUY and -1 for SELL; a SELL position yields the negation of the BUY
\* result for the same numbers (entry 100, current 120, lot 50, quantity 2:
\* 2000 for BUY, -2000 for SELL).
C11_PnlArithmetic ==
    LET r == proc["mon"]
    IN r.pc = "pnl" =>
          LET pos == r.position[1]
              sign == IF pos.action = "BUY" THEN 1 ELSE -1
              lotSize == IF pos.symbol \in {NIFTY, FINNIFTY, NIFTY50} THEN 50 ELSE 15
              other == [pos EXCEPT !.action = IF @ = "BUY" THEN "SELL" ELSE "BUY"]
          IN /\ r.pnl = (r.ltp - pos.entry_price) * sign * lotSize * pos.quantity
             /\ calculatePnL(other, r.ltp) = -r.pnl
             /\ (pos.entry_price = 100 /\ r.ltp = 120 /\ lotSize = 50
                 /\ pos.quantity = 2)
                => r.pnl = IF pos.action = "BUY" THEN 2000 ELSE -2000

C11_Witness ==
    LET r == proc["mon"]
    IN /\ r.pc = "pnl"
       /\ r.position[1].action = "SELL"
       /\ r.position[1].symbol = NIFTY
       /\ r.position[1].entry_price = 100
       /\ r.position[1].quantity = 2
       /\ r.ltp = 120
       /\ r.pnl = -2000

\* monitorPositions has settled (returned) and nothing ran since
TickSettled == Current("mon") /\ proc["mon"].pc = "done"

\* the WARNING / INFO rows monitorPositions writes after an exit
MonitorLogs(written) ==
    SelectSeq(written, LAMBDA row :
        row.message \in {"Stop loss hit for position",
                         "Target profit reached for position"})

\* calls of exitPosition for position id made by the call r
ExitCallsFor(r, id) == {k \in DOMAIN r.exits : r.exits[k] = id}

\* the thresholds of the strategy owning the j-th position loaded by the tick
MaxLossOf(r, j) ==
    IF r.loaded[j].trading_strategies = <<>> THEN <<>>
    ELSE r.loaded[j].trading_strategies[1].risk_params.maxLoss

TargetProfitOf(r, j) ==
    IF r.loaded[j].trading_strategies = <<>> THEN <<>>
    ELSE r.loaded[j].trading_strategies[1].risk_params.targetProfit

\* the rules as the specification words them: a threshold that is defined
StopDue(r, j) == MaxLossOf(r, j) # <<>> /\ r.pnls[j] <= -MaxLossOf(r, j)[1]
TargetDue(r, j) ==
    TargetProfitOf(r, j) # <<>> /\ r.pnls[j] >= TargetProfitOf(r, j)[1]

\* C12: in a tick in which nothing failed, for every position whose owning
\* strategy defines maxLoss: P&L <= -maxLoss gives exactly one exitPosition
\* call and exactly one WARNING row for the position; P&L > -maxLoss and
\* below the target gives no exit call and no row.
C12_StopLossExits ==
    LET r == proc["mon"]
        mlogs == MonitorLogs(RowsSince(system_logs, r.base.logs))
    IN (TickSettled /\ r.faults = <<>>) =>
          \A j \in DOMAIN r.pnls :
             LET id == r.loaded[j].row.id
                 rows == {k \in ExitCallsFor(r, id) : k \in DOMAIN mlogs}
             IN MaxLossOf(r, j) # <<>> =>
                   /\ StopDue(r, j) =>
                         /\ Cardinality(ExitCallsFor(r, id)) = 1
                         /\ Cardinality(rows) = 1
                         /\ \A k \in rows :
                               /\ mlogs[k].log_type = "WARNING"
                               /\ mlogs[k].symbol = r.loaded[j].row.symbol
                   /\ (~StopDue(r, j) /\ ~TargetDue(r, j)) =>
                         /\ ExitCallsFor(r, id) = {}
                         /\ Len(mlogs) = Len(r.exits)

\* C13: in a tick in which nothing failed, exitPosition is called at most
\* once per position and each call is followed by one WARNING or INFO row
\* for that position; the INFO row (target branch) is written only when
\* the stop-loss rule did not apply, targetProfit is defined and
\* P&L >= targetProfit; when both rules apply, the row is the WARNING.
C13_TargetOnlyAfterStopLoss ==
    LET r == proc["mon"]
        mlogs == MonitorLogs(RowsSince(system_logs, r.base.logs))
    IN (TickSettled /\ r.faults = <<>>) =>
          /\ Len(mlogs) = Len(r.exits)
          /\ \A j \in DOMAIN r.pnls :
                LET id == r.loaded[j].row.id
                IN /\ Cardinality(ExitCallsFor(r, id)) <= 1
                   /\ \A k \in ExitCallsFor(r, id) :
                         /\ mlogs[k].symbol = r.loaded[j].row.symbol
                         /\ mlogs[k].log_type \in {"WARNING", "INFO"}
                         /\ mlogs[k].log_type = "INFO" =>
                               ~StopDue(r, j) /\ TargetDue(r, j)
                         /\ (StopDue(r, j) /\ TargetDue(r, j)) =>
                               mlogs[k].log_type = "WARNING"

\* both rules apply to the position, and one exit was made
C13_Witness ==
    LET r == proc["mon"]
        mlogs == MonitorLogs(RowsSince(system_logs, r.base.logs))
    IN /\ TickSettled
       /\ r.faults = <<>>
       /\ Len(r.pnls) = 1
       /\ StopDue(r, 1) /\ TargetDue(r, 1)
       /\ r.exits = <<r.loaded[1].row.id>>
       /\ Len(mlogs) = 1
       /\ mlogs[1].log_type = "WARNING"

\* the target branch alone fired, at the boundary P&L = targetProfit
C13_TargetWitness ==
    LET r == proc["mon"]
        mlogs == MonitorLogs(RowsSince(system_logs, r.base.logs))
    IN /\ TickSettled
       /\ r.faults = <<>>
       /\ Len(r.pnls) = 1
       /\ r.pnls[1] = 12000
       /\ TargetProfitOf(r, 1) = <<12000>>
       /\ Len(mlogs) = 1
       /\ mlogs[1].log_type = "INFO"
       /\ positions[r.loaded[1].row.id].status = "CLOSED"

\* C14: while a tick runs and after it, a position that has no owning
\* strategy (strategy_id null) has not been passed to exitPosition by the
\* tick, and its row differs from the row the tick found in current_price
\* and pnl at most; this over both ticks of a behaviour and every quote.
C14_NoStrategyNoExit ==
    LET r == proc["mon"]
    IN Current("mon") =>
          \A id \in DOMAIN r.base.rows :
             r.base.rows[id].strategy_id = NULL =>
                /\ ExitCallsFor(r, id) = {}
                /\ [positions[id] EXCEPT !.current_price = 0, !.pnl = 0]
                      = [r.base.rows[id] EXCEPT !.current_price = 0, !.pnl = 0]

\* the second tick refreshed the strategy-less position at a loss beyond the
\* maxLoss of the user's strategy, and left it OPEN
C14_Witness ==
    LET r == proc["mon"]
    IN /\ TickSettled
       /\ tickCalls = 2
       /\ r.faults = <<>>
       /\ Len(r.loaded) = 1
       /\ r.loaded[1].row.strategy_id = NULL
       /\ r.pnls = <<-12000>>
       /\ \E st \in trading_strategies : st.risk_params.maxLoss = <<10000>>
       /\ positions[1].pnl = -12000
       /\ positions[1].pnl # r.base.rows[1].pnl
       /\ positions[1].status = "OPEN"
       /\ r.exits = <<>>

\* the user's OPEN rows of a positions table, in table order
OpenRows(rows, u) ==
    SelectSeq(rows, LAMBDA row : row.user_id = u /\ row.status = "OPEN")

\* C15: whichever awaited call of a tick fails (load, quote, quote cache,
\* position update, exit, log insert), monitorPositions returns normally;
\* and a tick in which nothing fails runs the whole procedure, whatever
\* failed before it: it computes the P&L of every OPEN position of the user
\* and stores it.
C15_MonitorNeverRaises ==
    LET r == proc["mon"]
        open == OpenRows(r.base.rows, r.userId)
    IN /\ r.pc = "done" => (r.result = "returned" /\ r.error = NULL)
       /\ (TickSettled /\ r.faults = <<>>) =>
             /\ Len(r.pnls) = Len(open)
             /\ \A j \in DOMAIN open :
                   /\ r.loaded[j].row = open[j]
                   /\ positions[open[j].id].pnl = r.pnls[j]

\* the first tick failed, the second ran in full
C15_Witness ==
    LET r == proc["mon"]
    IN /\ TickSettled
       /\ tickCalls = 2
       /\ execCalls = 0
       /\ faultBudget = 0
       /\ r.faults = <<>>
       /\ Len(r.pnls) = 1
       /\ positions[r.loaded[1].row.id].pnl = r.pnls[1]
       /\ positions[r.loaded[1].row.id].pnl # r.base.rows[r.loaded[1].row.id].pnl

\* C16: in every reachable state the number of OPEN positions of a user is
\* at most the max_open_positions of the user's settings row.
C16_OpenWithinLimit ==
    \A s \in user_settings :
       OpenCount(positions, s.user_id) <= s.max_open_positions

\* C17: an exitPosition call for an OPEN position of the user in which
\* nothing failed has sent the broker exactly one order: MARKET, INTRADAY,
\* the stored symbol and quantity, the side opposite to the stored side.
\* The row is CLOSED with closed_at set and exit_price equal to the stored
\* current price if the order was reported EXECUTED, and is unchanged (OPEN)
\* otherwise; no other row changes.
C17_ExitPosition ==
    LET r == proc["man"]
        id == r.positionId
    IN (r.pc = "done" /\ r.faults = <<>> /\ id \in DOMAIN r.base.rows) =>
          LET stored == r.base.rows[id]
              opposite == IF stored.action = "BUY" THEN "SELL" ELSE "BUY"
          IN (stored.user_id = r.userId /\ stored.status = "OPEN") =>
                /\ r.result = "returned"
                /\ RowsSince(broker, r.base.broker)
                      = <<[kind |-> "order", userId |-> r.userId,
                           symbol |-> stored.symbol, action |-> opposite,
                           quantity |-> stored.quantity, orderType |-> "MARKET",
                           product |-> "INTRADAY"]>>
                /\ positions[id].status = "CLOSED" <=> r.response.status = "EXECUTED"
                /\ positions[id] =
                      IF r.response.status = "EXECUTED"
                      THEN [stored EXCEPT !.status = "CLOSED",
                                          !.closed_at = <<Today>>,
                                          !.exit_price = <<stored.current_price>>]
                      ELSE stored
                /\ \A k \in DOMAIN positions : k # id => positions[k] = r.base.rows[k]

C17_Witness ==
    LET r == proc["man"]
    IN /\ r.pc = "done"
       /\ r.faults = <<>>
       /\ r.positionId = 1
       /\ Len(r.base.rows) = 1
       /\ Len(broker) = r.base.broker + 1
       /\ r.base.rows[1].status = "OPEN"
       /\ r.base.rows[1].action = "SELL"
       /\ r.base.rows[1].current_price = 100
       /\ r.response.status = "EXECUTED"
       /\ positions[1].status = "CLOSED"
       /\ positions[1].exit_price = <<100>>
       /\ broker[Len(broker)].action = "BUY"

\* the gate is running, or has just returned its decision to executeStrategy
GateRunning ==
    proc["exec"].pc \in {"gate_settings", "gate_open", "gate_today", "gate_warn"}

GateJustReturned ==
    LET r == proc["exec"]
    IN \/ r.canTrade = "deny" /\ r.pc = "exec_catch"
       \/ /\ r.canTrade = "allow"
          /\ \/ r.pc = "po_insert" /\ r.i = 1
             \/ r.pc = "exec_log" /\ r.legs = <<>>
             \/ r.pc = "exec_catch" /\ r.i = 1 /\ r.error = NotAuthenticatedMsg

\* C18: while the gate runs and when it has returned, the strategies,
\* positions, trades and settings are as they were when the call began; the
\* gate has written no log row when it allows and at most one, the WARNING
\* row, when it denies.
C18_GateFrame ==
    LET r == proc["exec"]
        written == RowsSince(system_logs, r.base.logs)
    IN (Current("exec") /\ (GateRunning \/ GateJustReturned)) =>
          /\ trading_strategies = r.base.strategies
          /\ user_settings = r.base.settings
          /\ positions = r.base.rows
          /\ Len(trades) = r.base.trades
          /\ Len(broker) = r.base.broker
          /\ Len(written) <= 1
          /\ \A j \in DOMAIN written : written[j].log_type = "WARNING"
          /\ r.canTrade # "deny" => written = <<>>

\* the gate allowed at the daily-loss boundary and wrote nothing
C18_Witness ==
    LET r == proc["exec"]
    IN /\ Current("exec")
       /\ GateJustReturned
       /\ r.canTrade = "allow"
       /\ r.pc = "po_insert"
       /\ TodayPnlSum(r.base.rows, r.userId) = -10000
       /\ Len(system_logs) = r.base.logs
       /\ positions = r.base.rows

\* C19: the orders executeStrategy has sent to the broker are, in order, the
\* orders of legs 1..n: MARKET, INTRADAY, the leg's symbol, side and
\* quantity; when the order of leg n has been sent, the responses of legs
\* 1..n-1 have been received and the positions of those that were EXECUTED
\* are recorded.
C19_LegOrder ==
    LET r == proc["exec"]
        orders == RowsSince(broker, r.base.broker)
        n == Len(orders)
        added == RowsSince(positions, r.base.positions)
    IN Current("exec") =>
          /\ n <= Len(r.legs)
          /\ \A k \in DOMAIN orders :
                orders[k] = [kind |-> "order", userId |-> r.userId,
                             symbol |-> r.legs[k].symbol,
                             action |-> r.legs[k].action,
                             quantity |-> r.legs[k].quantity,
                             orderType |-> "MARKET", product |-> "INTRADAY"]
          /\ n >= 1 =>
                LET before == ExecutedLegs(SubSeq(r.legs, 1, n - 1),
                                           SubSeq(r.responses, 1, n - 1))
                IN /\ Len(r.responses) >= n - 1
                   /\ Len(added) >= Len(before)
                   /\ OnePositionPerLeg(SubSeq(added, 1, Len(before)), before,
                                        r.userId, r.strategyId)

\* the second order is out: the first was EXECUTED and its position is stored
C19_Witness ==
    LET r == proc["exec"]
    IN /\ Current("exec")
       /\ r.pc = "po_update"
       /\ r.i = 2
       /\ r.legs[1] # r.legs[2]
       /\ Len(broker) = r.base.broker + 2
       /\ r.responses[1].status = "EXECUTED"
       /\ Len(positions) = r.base.positions + 1
       /\ positions[Len(positions)].symbol = r.legs[1].symbol

\* C20: executeStrategy creates a position OPEN with entry price 0, and a
\* tick in which nothing failed has corrected the entry price of every
\* position it processed: it is no longer the placeholder 0.
C20_TickCorrectsEntryPrice ==
    /\ \A k \in DOMAIN proc["exec"].created :
          /\ proc["exec"].created[k].status = "OPEN"
          /\ proc["exec"].created[k].entry_price = 0
    /\ LET r == proc["mon"]
       IN (TickSettled /\ r.faults = <<>>) =>
             \A j \in DOMAIN r.pnls, k \in DOMAIN proc["exec"].created :
                proc["exec"].created[k].id = r.loaded[j].row.id
                => positions[r.loaded[j].row.id].entry_price # 0

\* C21: in a tick, every loaded position other than the one during whose
\* processing a call failed has its P&L computed and stored: a failure
\* while one position is processed does not keep the others from being
\* refreshed.
C21_IndependentProcessing ==
    LET r == proc["mon"]
    IN (TickSettled /\ Authenticated) =>
          \A j \in DOMAIN r.loaded :
             (r.faults = <<>> \/ r.i # j) =>
                /\ j \in DOMAIN r.pnls
                /\ positions[r.loaded[j].row.id].pnl = r.pnls[j]

\* C27: a tick calls exitPosition for no position that executeStrategy
\* created and whose entry price is still the placeholder 0.
C27_NoExitOnPlaceholderEntry ==
    LET r == proc["mon"]
    IN TickSettled =>
          \A j \in DOMAIN r.pnls, k \in DOMAIN proc["exec"].created :
             (proc["exec"].created[k].id = r.loaded[j].row.id
              /\ r.loaded[j].row.entry_price = 0)
             => ExitCallsFor(r, r.loaded[j].row.id) = {}

\* C24: the lot size calculatePnL uses is 50 for a NIFTY-family symbol that
\* is not a BANKNIFTY symbol and 15 otherwise: 15 for a symbol without
\* 'NIFTY', 15 for BANKNIFTY and for 'NIFTY BANK'.
LotSizeUsed(r) ==
    LET pos == r.position[1]
        sign == IF pos.action = "BUY" THEN 1 ELSE -1
    IN r.pnl \div ((r.ltp - pos.entry_price) * sign * pos.quantity)

C24_LotSize ==
    LET r == proc["mon"]
    IN (r.pc = "pnl" /\ r.ltp # r.position[1].entry_price) =>
          LET symbol == r.position[1].symbol
          IN /\ LotSizeUsed(r) \in {15, 50}
             /\ symbol \in {NIFTY, NIFTY50, FINNIFTY} => LotSizeUsed(r) = 50
             /\ symbol \in {BANKNIFTY, NIFTYBANK} => LotSizeUsed(r) = 15
             /\ ~Includes(symbol, NIFTY) => LotSizeUsed(r) = 15

C24_Witness ==
    LET r == proc["mon"]
    IN /\ r.pc = "pnl"
       /\ r.position[1].symbol = NIFTYBANK
       /\ r.position[1].action = "BUY"
       /\ r.position[1].entry_price = 100
       /\ r.position[1].quantity = 1
       /\ r.ltp = 120
       /\ r.pnl = 300

\* C30: an exitPosition call whose position id does not exist, or names a
\* row of another user, and whose select was answered, has thrown
\* 'Position not found', made no placeOrder call, sent nothing to the
\* broker, inserted no trade, and left every position row as it was.
C30_ExitOwnerScoped ==
    LET r == proc["man"]
        id == r.positionId
    IN (/\ r.pc = "done"
        /\ \A j \in DOMAIN r.faults : r.faults[j].out # "throw"
        /\ \/ id \notin DOMAIN r.base.rows
           \/ r.base.rows[id].user_id # r.userId) =>
          /\ r.result = "threw"
          /\ r.error = PositionNotFoundMsg
          /\ r.calls = 0
          /\ Len(broker) = r.base.broker
          /\ Len(trades) = r.base.trades
          /\ positions = r.base.rows

\* the row exists, is OPEN and belongs to another user
C30_Witness ==
    LET r == proc["man"]
    IN /\ r.pc = "done"
       /\ r.faults = <<>>
       /\ Authenticated
       /\ r.positionId = 1
       /\ Len(r.base.rows) = 1
       /\ r.base.rows[1].user_id = "u2"
       /\ r.base.rows[1].status = "OPEN"
       /\ r.error = PositionNotFoundMsg
       /\ positions = r.base.rows

\* placeOrder calls of the call r that passed the authentication check
AuthenticatedAttempts(r) ==
    r.calls - Cardinality({j \in DOMAIN r.faults : r.faults[j].at = "po_auth"})

\* the trade row k as placeOrder leaves it for the broker response resp
TradeAfter(row, resp) ==
    /\ row.status = resp.status
    /\ row.broker_order_id = resp.orderId
    /\ row.executed_at = IF resp.status = "EXECUTED" THEN <<Today>> ELSE <<>>

\* C25: each placeOrder attempt of executeStrategy that passed the
\* authentication check has inserted one trade row, PENDING, before its
\* request went to the broker; the row carries the broker's status, with
\* executed_at set exactly for EXECUTED, once the response is in, and is
\* PENDING until then; when the broker request failed the row is still
\* PENDING and an 'Order failed' ERROR row is in the log by the time the error
\* reaches the caller.
C25_TradeLifecycle ==
    LET r == proc["exec"]
        added == RowsSince(trades, r.base.trades)
        orders == RowsSince(broker, r.base.broker)
        written == RowsSince(system_logs, r.base.logs)
        brokerFailed == \E j \in DOMAIN r.faults : r.faults[j].at = "po_post"
    IN Current("exec") =>
          /\ Len(added) = AuthenticatedAttempts(r)
                              - (IF r.pc = "po_insert" THEN 1 ELSE 0)
          /\ Len(orders) <= Len(added)
          /\ \A k \in DOMAIN added :
                /\ added[k].user_id = r.userId
                /\ added[k].action = r.legs[k].action
                /\ added[k].quantity = r.legs[k].quantity
                /\ IF k <= Len(r.responses) THEN TradeAfter(added[k], r.responses[k])
                   ELSE IF r.pc = "po_log" THEN TradeAfter(added[k], r.response)
                   ELSE /\ added[k].status = "PENDING"
                        /\ added[k].executed_at = <<>>
                        /\ k > Len(orders) => r.pc = "po_post"
          /\ (brokerFailed /\ r.pc \in {"exec_catch", "done"}) =>
                /\ added[Len(added)].status = "PENDING"
                /\ \E j \in DOMAIN written :
                      written[j] = LogRow(r.userId, "ERROR", "Order failed", 0,
                                          r.legs[r.i].symbol, NULL,
                                          BrokerErrorMsg, <<>>)
                /\ r.error = BrokerErrorMsg

\* leg 1 EXECUTED, the request of leg 2 failed
C25_Witness ==
    LET r == proc["exec"]
        added == RowsSince(trades, r.base.trades)
    IN /\ ExecSettled
       /\ r.faults = <<[at |-> "po_post", out |-> "throw"]>>
       /\ r.i = 2
       /\ Len(added) = 2
       /\ added[1].status = "EXECUTED"
       /\ added[1].executed_at = <<Today>>
       /\ added[2].status = "PENDING"
       /\ r.result = "threw"

\* C23: when executeStrategy is invoked again with the user, strategy id and
\* legs of a call that was allowed and in which nothing failed, and the gate
\* allows again and nothing fails, the second call sends a fresh order for
\* every leg and adds one OPEN position per EXECUTED leg, next to the
\* positions the first call created.
C23_NotIdempotent ==
    LET r == proc["exec"]
    IN (/\ r.pc = "done" /\ r.prev # <<>>
        /\ r.canTrade = "allow" /\ r.faults = <<>>
        /\ r.prev[1].canTrade = "allow" /\ r.prev[1].faults = <<>>) =>
          LET first == r.prev[1]
          IN /\ r.userId = first.userId
             /\ r.strategyId = first.strategyId
             /\ r.legs = first.legs
             /\ r.result = "returned"
             /\ r.calls = Len(r.legs)
             /\ Len(RowsSince(broker, r.base.broker)) = Len(r.legs)
             /\ Len(RowsSince(trades, r.base.trades)) = Len(r.legs)
             /\ RowsSince(r.base.rows, first.base.positions) = first.created
             /\ SubSeq(positions, 1, r.base.positions) = r.base.rows
             /\ OnePositionPerLeg(RowsSince(positions, r.base.positions),
                                  ExecutedLegs(r.legs, r.responses),
                                  r.userId, r.strategyId)

\* the same single leg, EXECUTED both times: two OPEN positions
C23_Witness ==
    LET r == proc["exec"]
    IN /\ r.pc = "done"
       /\ r.prev # <<>>
       /\ r.result = "returned"
       /\ Len(r.legs) = 1
       /\ Len(r.prev[1].created) = 1
       /\ Len(positions) = 2
       /\ positions[1].symbol = positions[2].symbol
       /\ positions[1].strategy_id = positions[2].strategy_id
       /\ positions[1].status = "OPEN"
       /\ positions[2].status = "OPEN"
       /\ Len(broker) = 2

\* C22: a tick that follows a settled tick, with nothing failing in either,
\* the same quote for the position and the same broker answer to any exit
\* order, leaves the positions table as the first tick left it and calls
\* exitPosition for no position.
C22_TickIdempotent ==
    LET r == proc["mon"]
    IN (/\ TickSettled /\ r.prev # <<>>
        /\ r.faults = <<>> /\ r.prev[1].faults = <<>>
        /\ (r.pnls # <<>> /\ r.prev[1].pnls # <<>> => r.ltp = r.prev[1].ltp)
        /\ (r.exits # <<>> /\ r.prev[1].exits # <<>> =>
               r.response.status = r.prev[1].response.status)) =>
          /\ positions = r.base.rows
          /\ r.exits = <<>>

\* C26: while ticks and manual exits run concurrently, no position has an
\* exit order EXECUTED both for the tick and for the manual exit, and no
\* caller is about to send an exit order for a position that is CLOSED.
C26_NoDoubleExit ==
    /\ ~(/\ proc["mon"].exits # <<>> /\ proc["man"].exits # <<>>
         /\ proc["mon"].positionId = proc["man"].positionId
         /\ proc["mon"].response.status = "EXECUTED"
         /\ proc["man"].response.status = "EXECUTED")
    /\ \A p \in {"mon", "man"} :
          proc[p].pc = "po_post" /\ proc[p].exits # <<>> =>
             positions[proc[p].positionId].status # "CLOSED"

\* C29: a position that is CLOSED stays CLOSED, and its current price and
\* P&L are not written again, in every step of a tick running together with
\* a manual exit.
C29_ClosedIsFrozen ==
    [][\A id \in DOMAIN positions :
          positions[id].status = "CLOSED" =>
             /\ positions'[id].status = "CLOSED"
             /\ positions'[id].current_price = positions[id].current_price
             /\ positions'[id].pnl = positions[id].pnl]_vars

\* the stop-loss position is OPEN with maxLoss defined and P&L <= -maxLoss
LiveStopDue ==
    /\ positions[LivePosition].status = "OPEN"
    /\ \E st \in trading_strategies :
          /\ st.id = positions[LivePosition].strategy_id
          /\ st.risk_params.maxLoss # <<>>
          /\ positions[LivePosition].pnl <= -st.risk_params.maxLoss[1]

====
